---- MODULE Spec2Model ----
(***************************************************************************)
(* SchemaLink query-resolution pipeline: hybrid schema retrieval with      *)
(* reciprocal rank fusion and token-budgeted context assembly              *)
(* (core_logic/hybrid_retriever.py), the execution guardrail               *)
(* (core_logic/safe_connector.py) and the self-correcting agent loop       *)
(* (core_logic/llm_agent.py).                                              *)
(*                                                                         *)
(* Text is modelled as a sequence of one-character strings; the two SQL    *)
(* delimiter tokens are single symbols of a generator response.  Messages  *)
(* (exception texts, answers) are sequences of phrases.  A Python Optional *)
(* is a sequence of length 0 (None / key absent) or 1 (the value).         *)
(***************************************************************************)
EXTENDS Integers, Sequences, FiniteSets, TLC

VARIABLES
    pc,                  \* position of the request inside LLMAgent.run
    vector_ranks,        \* retrieve_schema_chunks: result of _semantic_search
    keyword_ranks,       \* retrieve_schema_chunks: result of _keyword_search
    fused_ranks,         \* retrieve_schema_chunks: output of reciprocal_rank_fusion
    rank_pos,            \* retrieve_schema_chunks: position of the for loop in fused_ranks
    fetched,             \* retrieve_schema_chunks: the _fetch_full_schema_content calls made, in order
    current_token_count, \* retrieve_schema_chunks: running token estimate
    retrieved_context,   \* retrieve_schema_chunks: chunks appended so far
    truncation_warning,  \* retrieve_schema_chunks: truncation flag
    schema_context,      \* run: Optional context returned by the retriever
    attempt,             \* run: loop variable of range(MAX_RETRY_COUNT + 1)
    full_result,         \* run: the full_result dict
    prompt,              \* _generate_sql: Optional prompt of the last generator call
    llm_response,        \* _generate_sql: Optional raw text of the last generator call
    sql_query,           \* run: Optional statement parsed from llm_response
    exec_result,         \* outcome of the last execute_read_only_query call
    outcome,             \* how run ended: nothing yet, a returned dict, or an exception
    gen_calls,           \* number of llm_client.generate calls of this request
    exec_calls,          \* number of execute_read_only_query calls of this request
    db_connects,         \* number of engine.connect() calls
    db_sent,             \* statements handed to connection.execute, in order
    rrf_input,           \* reciprocal_rank_fusion: its search_results argument
    rrf_scores,          \* reciprocal_rank_fusion: its fused_scores dict
    result_set,          \* scrub_results: the rows it is called with
    scrubbed_results,    \* Optional rows returned by scrub_results
    rescrubbed_results,  \* Optional rows of scrub_results called on scrubbed_results
    synthesis_prompt,    \* synthesize_answer: Optional prompt for the synthesizer
    final_answer,        \* process_query: Optional answer of synthesize_answer
    max_retry_count,     \* the retry count the process has read at startup
    error_mode,          \* MockLLMClient.error_mode of the agent's llm_client
    requests,            \* the requests running through one agent, each with its locals
    store_fault          \* Optional error the store answers an unknown column with

vars == <<pc, vector_ranks, keyword_ranks, fused_ranks, rank_pos, fetched,
          current_token_count, retrieved_context, truncation_warning,
          schema_context, attempt, full_result, prompt, llm_response,
          sql_query, exec_result, outcome, gen_calls, exec_calls,
          db_connects, db_sent,
          rrf_input, rrf_scores, result_set, scrubbed_results,
          rescrubbed_results, synthesis_prompt, final_answer,
          max_retry_count, error_mode, requests, store_fault>>

(***************************************************************************)
(* Bounds of the model and constants of the program.                       *)
(***************************************************************************)
MaxRankLen == 2          \* longest ranked list a search provider returns

K_SEARCH == 10
RRF_K == 60
TOKEN_BUDGET == 500
MAX_RETRY_COUNT == 1

SQL_START_TOKEN == "[SQL_START]"
SQL_END_TOKEN == "[SQL_END]"

TableIds == {"Orders", "Customers", "Products"}

\* Lengths of the stored schema texts the content lookup may return
\* (0 is the empty string, i.e. "not found").
ContentLens == {0, 3, 2003, 2004}

None == <<>>
Some(v) == <<v>>

(***************************************************************************)
(* Text helpers: str.strip, str.upper, str.startswith, str.replace.        *)
(***************************************************************************)
Whitespace == {" ", "\n", "\t"}

LowerToUpper ==
    [a |-> "A", c |-> "C", d |-> "D", e |-> "E", h |-> "H", i |-> "I",
     l |-> "L", o |-> "O", p |-> "P", r |-> "R", s |-> "S", t |-> "T",
     w |-> "W", x |-> "X"]

UpperChar(c) == IF c \in DOMAIN LowerToUpper THEN LowerToUpper[c] ELSE c

Upper(s) == [i \in 1..Len(s) |-> UpperChar(s[i])]

RECURSIVE LStrip(_)
LStrip(s) ==
    IF s # <<>> /\ Head(s) \in Whitespace THEN LStrip(Tail(s)) ELSE s

RECURSIVE RStrip(_)
RStrip(s) ==
    IF s # <<>> /\ s[Len(s)] \in Whitespace
    THEN RStrip(SubSeq(s, 1, Len(s) - 1))
    ELSE s

Strip(s) == RStrip(LStrip(s))

StartsWith(s, prefix) ==
    /\ Len(s) >= Len(prefix)
    /\ SubSeq(s, 1, Len(prefix)) = prefix

\* The backquote character (not writable in a TLA+ string literal).
Backtick == "<backquote>"

RemoveBackticks(s) == SelectSeq(s, LAMBDA c : c # Backtick)

\* "needle in haystack" for messages (sequences of phrases)
Contains(haystack, needle) ==
    \E i \in 0..(Len(haystack) - Len(needle)) :
        SubSeq(haystack, i + 1, i + Len(needle)) = needle

(***************************************************************************)
(* reciprocal_rank_fusion.  A score 1.0 / (k + rank + 1) is kept exactly,  *)
(* as the integer ScoreDenominator / (k + rank + 1) over the common        *)
(* denominator of all ranks that occur, so that the descending sort        *)
(* compares the exact sums.                                                *)
(***************************************************************************)
RECURSIVE MaxLenOf(_)
MaxLenOf(search_results) ==
    IF search_results = <<>> THEN 0
    ELSE LET rest == MaxLenOf(Tail(search_results))
             here == Len(Head(search_results))
         IN  IF here > rest THEN here ELSE rest

RECURSIVE ScoreDenominator(_, _)
ScoreDenominator(n, k) ==
    IF n = 0 THEN 1 ELSE (k + n) * ScoreDenominator(n - 1, k)

\* a score that grows with the rank number: 1.0 / (k - rank + 1)
RankScore_Rising(rank, k, denom) == denom \div (k - rank + 1)

\* 1.0 / (k + rank + 1), scaled by the common denominator
RankScore(rank, k, denom) == denom \div (k + rank + 1)

RECURSIVE ListScore(_, _, _, _)
ListScore(ranks, doc_id, k, denom) ==
    IF ranks = <<>> THEN 0
    ELSE LET n == Len(ranks)
         IN  ListScore(SubSeq(ranks, 1, n - 1), doc_id, k, denom)
             + (IF ranks[n] = doc_id THEN RankScore(n - 1, k, denom) ELSE 0)

RECURSIVE FusedScore(_, _, _, _)
FusedScore(search_results, doc_id, k, denom) ==
    IF search_results = <<>> THEN 0
    ELSE ListScore(Head(search_results), doc_id, k, denom)
         + FusedScore(Tail(search_results), doc_id, k, denom)

\* keys of the fused_scores dict, in insertion order
RECURSIVE AppendNew(_, _)
AppendNew(keys, ranks) ==
    IF ranks = <<>> THEN keys
    ELSE AppendNew(IF \E i \in 1..Len(keys) : keys[i] = Head(ranks)
                   THEN keys
                   ELSE Append(keys, Head(ranks)),
                   Tail(ranks))

RECURSIVE FusedKeys(_, _)
FusedKeys(keys, search_results) ==
    IF search_results = <<>> THEN keys
    ELSE FusedKeys(AppendNew(keys, Head(search_results)), Tail(search_results))

\* a sort that is not stable: a key goes ahead of the keys of equal score
InsertByScore_Unstable(sorted_docs, doc_id, score) ==
    LET ahead == {i \in 1..Len(sorted_docs) : score[sorted_docs[i]] > score[doc_id]}
        n == Cardinality(ahead)
    IN  SubSeq(sorted_docs, 1, n) \o <<doc_id>> \o SubSeq(sorted_docs, n + 1, Len(sorted_docs))

\* sorted(..., reverse=True) is stable: a key goes behind every key already
\* placed whose score is greater than or equal to its own.
InsertByScore(sorted_docs, doc_id, score) ==
    LET ahead == {i \in 1..Len(sorted_docs) : score[sorted_docs[i]] >= score[doc_id]}
        n == Cardinality(ahead)
    IN  SubSeq(sorted_docs, 1, n) \o <<doc_id>> \o SubSeq(sorted_docs, n + 1, Len(sorted_docs))

RECURSIVE SortByScore(_, _, _)
SortByScore(sorted_docs, keys, score) ==
    IF keys = <<>> THEN sorted_docs
    ELSE SortByScore(InsertByScore(sorted_docs, Head(keys), score), Tail(keys), score)

\* the fused_scores dict when both for loops have ended
FusedScores(search_results, k) ==
    LET denom == ScoreDenominator(MaxLenOf(search_results), k)
        keys == FusedKeys(<<>>, search_results)
    IN  [d \in {keys[i] : i \in 1..Len(keys)} |->
            FusedScore(search_results, d, k, denom)]

reciprocal_rank_fusion(search_results, k) ==
    SortByScore(<<>>, FusedKeys(<<>>, search_results), FusedScores(search_results, k))

(***************************************************************************)
(* HybridSearchRetriever                                                   *)
(***************************************************************************)
\* The ranked lists a search provider may return for a query.
\* query_top_k(query, self.k_search): at most K_SEARCH identifiers.
RankedLists ==
    UNION {[1..n -> TableIds] : n \in {m \in 0..MaxRankLen : m <= K_SEARCH}}

\* the "if not content" branch left out: the empty content is returned as it is
FetchFullSchemaContent_NoPlaceholder(table_name, stored_len) ==
    [placeholder |-> FALSE, len |-> stored_len]

\* _fetch_full_schema_content, given the length of what get_content returned
FetchFullSchemaContent(table_name, stored_len) ==
    IF stored_len = 0
    THEN [placeholder |-> TRUE,
          len |-> Len("# Table: " \o table_name
                      \o "\nError: Schema content missing from index.")]
    ELSE [placeholder |-> FALSE, len |-> stored_len]

\* content_tokens = len(schema_content) // 4
ContentTokens(schema_content) == schema_content.len \div 4

\* the cost of the new chunk is left out of the test
FitsBudget_IgnoreNew(count, content_tokens) == count <= TOKEN_BUDGET

\* the first chunk is taken whatever its cost
FitsBudget_FirstFree(count, content_tokens) ==
    count = 0 \/ count + content_tokens <= TOKEN_BUDGET

FitsBudget(count, content_tokens) == count + content_tokens <= TOKEN_BUDGET

NoOutcome == [kind |-> "running", exc |-> "", result |-> None]
Raised(exc) == [kind |-> "raised", exc |-> exc, result |-> None]
Returned(result) == [kind |-> "returned", exc |-> "", result |-> Some(result)]

RetrieverLocals == <<vector_ranks, keyword_ranks, fused_ranks, rank_pos, fetched,
                     current_token_count, retrieved_context, truncation_warning>>
FusionLocals == <<rrf_input, rrf_scores>>
AgentState == <<max_retry_count, error_mode, requests, store_fault>>
SynthesisLocals == <<result_set, scrubbed_results, rescrubbed_results,
                     synthesis_prompt, final_answer>>
LoopLocals == <<attempt, full_result, prompt, llm_response, sql_query,
                exec_result, gen_calls, exec_calls, db_connects, db_sent>>

\* vector_ranks = self._semantic_search(query): the provider answers or raises
SemanticSearch ==
    /\ pc = "semantic_search"
    /\ \/ \E ranks \in RankedLists :
            /\ vector_ranks' = ranks
            /\ pc' = "keyword_search"
            /\ outcome' = outcome
       \/ /\ vector_ranks' = vector_ranks
          /\ pc' = "done"
          /\ outcome' = Raised("SemanticProviderError")
    /\ UNCHANGED <<keyword_ranks, fused_ranks, rank_pos, fetched, current_token_count,
                   retrieved_context, truncation_warning, schema_context>>
    /\ UNCHANGED LoopLocals
    /\ UNCHANGED FusionLocals
    /\ UNCHANGED SynthesisLocals
    /\ UNCHANGED AgentState

\* keyword_ranks = self._keyword_search(query): the provider answers or raises
KeywordSearch ==
    /\ pc = "keyword_search"
    /\ \/ \E ranks \in RankedLists :
            /\ keyword_ranks' = ranks
            /\ pc' = "fusion"
            /\ outcome' = outcome
       \/ /\ keyword_ranks' = keyword_ranks
          /\ pc' = "done"
          /\ outcome' = Raised("KeywordProviderError")
    /\ UNCHANGED <<vector_ranks, fused_ranks, rank_pos, fetched, current_token_count,
                   retrieved_context, truncation_warning, schema_context>>
    /\ UNCHANGED LoopLocals
    /\ UNCHANGED FusionLocals
    /\ UNCHANGED SynthesisLocals
    /\ UNCHANGED AgentState

\* fused_ranks = reciprocal_rank_fusion([vector_ranks, keyword_ranks], k=self.k_rrf)
\* and the initialisation of the assembly loop
Fusion ==
    /\ pc = "fusion"
    /\ fused_ranks' = reciprocal_rank_fusion(<<vector_ranks, keyword_ranks>>, RRF_K)
    /\ rank_pos' = 1
    /\ fetched' = <<>>
    /\ current_token_count' = 0
    /\ retrieved_context' = <<>>
    /\ truncation_warning' = FALSE
    /\ pc' = IF fused_ranks' = <<>> THEN "retrieve_return" ELSE "assemble"
    /\ UNCHANGED <<vector_ranks, keyword_ranks, schema_context, outcome>>
    /\ UNCHANGED LoopLocals
    /\ UNCHANGED FusionLocals
    /\ UNCHANGED SynthesisLocals
    /\ UNCHANGED AgentState

\* break without setting the flag
RejectChunk_NoFlag ==
    /\ truncation_warning' = truncation_warning
    /\ pc' = "retrieve_return"
    /\ UNCHANGED <<retrieved_context, current_token_count, rank_pos>>

\* "continue" in place of "break": the loop goes on to the next identifier
RejectChunk_Skip ==
    /\ truncation_warning' = TRUE
    /\ rank_pos' = rank_pos + 1
    /\ pc' = IF rank_pos' > Len(fused_ranks) THEN "retrieve_return" ELSE "assemble"
    /\ UNCHANGED <<retrieved_context, current_token_count>>

\* the else branch of the budget test: set the flag and break
RejectChunk ==
    /\ truncation_warning' = TRUE
    /\ pc' = "retrieve_return"
    /\ UNCHANGED <<retrieved_context, current_token_count, rank_pos>>

\* one iteration of "for table_name in fused_ranks"
AssembleChunk ==
    /\ pc = "assemble"
    /\ rank_pos <= Len(fused_ranks)
    /\ \E stored_len \in ContentLens :
          LET table_name == fused_ranks[rank_pos]
              schema_content == FetchFullSchemaContent(table_name, stored_len)
              content_tokens == ContentTokens(schema_content)
          IN  /\ fetched' = Append(fetched, [table_name |-> table_name,
                                         stored_len |-> stored_len,
                                         content_tokens |-> content_tokens])
              /\ IF FitsBudget(current_token_count, content_tokens)
                 THEN /\ retrieved_context' =
                           Append(retrieved_context,
                                  [table_name |-> table_name, content |-> schema_content])
                      /\ current_token_count' = current_token_count + content_tokens
                      /\ rank_pos' = rank_pos + 1
                      /\ truncation_warning' = truncation_warning
                      /\ pc' = IF rank_pos' > Len(fused_ranks)
                               THEN "retrieve_return" ELSE "assemble"
                 ELSE RejectChunk
    /\ UNCHANGED <<vector_ranks, keyword_ranks, fused_ranks, schema_context, outcome>>
    /\ UNCHANGED LoopLocals
    /\ UNCHANGED FusionLocals
    /\ UNCHANGED SynthesisLocals
    /\ UNCHANGED AgentState

(***************************************************************************)
(* SafeDatabaseConnector.execute_read_only_query                           *)
(***************************************************************************)
SelectKeyword == <<"S", "E", "L", "E", "C", "T">>
WithKeyword == <<"W", "I", "T", "H">>

\* the statement is upper-cased but not stripped
IsReadStatement_NoStrip(sql) ==
    \/ StartsWith(Upper(sql), SelectKeyword)
    \/ StartsWith(Upper(sql), WithKeyword)

\* normalized_query.startswith("SELECT") or normalized_query.startswith("WITH")
IsReadStatement(sql) ==
    LET normalized_query == Upper(Strip(sql))
    IN  \/ StartsWith(normalized_query, SelectKeyword)
        \/ StartsWith(normalized_query, WithKeyword)

\* A field value: its Python type and the text str(value) gives for it.
StrValue(text) == [type |-> "str", text |-> text]
IntValue(digits) == [type |-> "int", text |-> digits]
NoneValue == [type |-> "NoneType", text |-> <<"N", "o", "n", "e">>]

EmailText == <<"a", "@", "b", ".", "c", "o">>
SevenDigits == <<"5", "5", "5", "1", "2", "3", "4">>

\* What the store does with a statement that reaches it: it returns rows, or
\* engine.connect() / connection.execute() raises an exception of some class.
\* The rows are none, or one row with an email address in a string column
\* and an integer.
StoreRows ==
    {<<>>, <<[contact |-> StrValue(EmailText), total_amount |-> IntValue(<<"1", "0">>)]>>}

StoreErrors ==
    {[stage |-> "connect", cls |-> "OperationalError",
      msg |-> <<"could not connect to server">>],
     [stage |-> "execute", cls |-> "OperationalError",
      msg |-> <<"canceling statement due to", "statement timeout">>],
     [stage |-> "execute", cls |-> "OperationalError",
      msg |-> <<"server closed the connection unexpectedly">>],
     [stage |-> "execute", cls |-> "ProgrammingError",
      msg |-> <<"column non_existent_column does not exist">>]}

StoreOutcomes ==
    {[kind |-> "rows", rows |-> r, stage |-> "execute", cls |-> "", msg |-> <<>>] :
        r \in StoreRows}
    \cup {[kind |-> "error", rows |-> <<>>, stage |-> e.stage, cls |-> e.cls, msg |-> e.msg] :
        e \in StoreErrors}

\* str(e) and repr(e) of a store exception
ErrorStr(e) == e.msg
ErrorRepr(e) == <<e.cls>> \o e.msg

\* the except clauses of execute_read_only_query
ClassifyStoreError(e) ==
    IF e.cls = "OperationalError"
    THEN IF Contains(ErrorStr(e), <<"statement timeout">>)
         THEN [exc |-> "TimeoutError",
               msg |-> <<"Query execution exceeded time limits (>5s). Please simplify your request.">>]
         ELSE [exc |-> "ValueError",
               msg |-> <<"Database Execution Error:">> \o ErrorRepr(e)]
    ELSE [exc |-> "RuntimeError",
          msg |-> <<"A general error occurred during database operation:">> \o ErrorRepr(e)]

NoExecResult ==
    [called |-> FALSE, sql |-> None, exc |-> "", msg |-> <<>>, rows |-> <<>>,
     connects |-> 0, sent |-> <<>>, store |-> None]

\* The call execute_read_only_query(sql) when the store answers with `store`:
\* exc = "" is a normal return of rows; connects and sent are the calls of
\* engine.connect() and connection.execute() the call has made.
ExecuteReadOnlyQuery(sql, store) ==
    IF ~IsReadStatement(sql)
    THEN [called |-> TRUE, sql |-> Some(sql), exc |-> "PermissionError",
          msg |-> <<"Query failed security validation. Only read (SELECT/WITH) statements are allowed.">>,
          rows |-> <<>>, connects |-> 0, sent |-> <<>>, store |-> None]
    ELSE LET sent == IF store.stage = "connect" THEN <<>> ELSE <<sql>>
         IN  IF store.kind = "rows"
             THEN [called |-> TRUE, sql |-> Some(sql), exc |-> "", msg |-> <<>>,
                   rows |-> store.rows,
                   connects |-> 1, sent |-> sent, store |-> Some(store)]
             ELSE [called |-> TRUE, sql |-> Some(sql),
                   exc |-> ClassifyStoreError(store).exc,
                   msg |-> ClassifyStoreError(store).msg, rows |-> <<>>,
                   connects |-> 1, sent |-> sent, store |-> Some(store)]

(***************************************************************************)
(* LLMAgent                                                                *)
(***************************************************************************)
UserQuery == "What was the total order amount for all key accounts?"

StartTokens == {SQL_START_TOKEN, "[sql_start]"}   \* re.IGNORECASE
EndTokens == {SQL_END_TOKEN, "[sql_end]"}

Min(S) == CHOOSE x \in S : \A y \in S : x <= y

\* _parse_sql: re.search(START \s*(.*?)\s* END, DOTALL | IGNORECASE), then
\* match.group(1).strip().replace("`", "")
ParseSql(response_text) ==
    LET starts == {i \in 1..Len(response_text) : response_text[i] \in StartTokens}
    IN  IF starts = {} THEN None
        ELSE LET first == Min(starts)
                 ends == {j \in (first + 1)..Len(response_text) :
                             response_text[j] \in EndTokens}
             IN  IF ends = {} THEN None
                 ELSE LET group1 == Strip(SubSeq(response_text, first + 1, Min(ends) - 1))
                      IN  Some(RemoveBackticks(Strip(group1)))

\* the test "if not sql_query" reduced to "if sql_query is None": an empty
\* statement is handed on
ParsedOrNone_KeepEmpty(response_text) == ParseSql(response_text)

\* "if not sql_query: return None, response_text" in _generate_sql
ParsedOrNone(response_text) ==
    LET parsed == ParseSql(response_text)
    IN  IF parsed = None \/ parsed[1] = <<>> THEN None ELSE parsed

\* the retry branch left out: every prompt is the system prompt
BuildSqlPrompt_NoCritic(user_query, schema_context_list, is_retry, error_details) ==
    [template |-> "SYSTEM_PROMPT_TEMPLATE",
     failed_query |-> None,
     error_message |-> None,
     schema_context |-> schema_context_list,
     user_query |-> user_query]

\* DynamicPromptBuilder.build_sql_prompt
BuildSqlPrompt(user_query, schema_context_list, is_retry, error_details) ==
    IF is_retry /\ error_details # None
    THEN [template |-> "CRITIC_PROMPT_TEMPLATE",
          failed_query |-> Some(error_details[1].query),
          error_message |-> Some(error_details[1].error),
          schema_context |-> schema_context_list,
          user_query |-> user_query]
    ELSE [template |-> "SYSTEM_PROMPT_TEMPLATE",
          failed_query |-> None,
          error_message |-> None,
          schema_context |-> schema_context_list,
          user_query |-> user_query]

\* Texts a generator may answer with.
SelectOne == SelectKeyword \o <<" ", "1">>
DeleteOrders == <<"D", "E", "L", "E", "T", "E">>
WithX == <<"w", "i", "t", "h", " ", "x">>

Responses ==
    {<<SQL_START_TOKEN>> \o SelectOne \o <<SQL_END_TOKEN>>,
     <<SQL_START_TOKEN>> \o DeleteOrders \o <<SQL_END_TOKEN>>,
     SelectOne,
     <<SQL_START_TOKEN, " ", Backtick, " ">> \o WithX \o <<Backtick, "\n", SQL_END_TOKEN>>,
     <<SQL_START_TOKEN, " ", SQL_END_TOKEN>>,
     <<SQL_START_TOKEN, Backtick, SQL_END_TOKEN>>,
     <<"[sql_start]">> \o SelectOne \o <<SQL_END_TOKEN, SQL_START_TOKEN>>
        \o DeleteOrders \o <<SQL_END_TOKEN>>}

\* full_result created with the status of a run that has succeeded
InitialFullResult_Success ==
    [status |-> "success",
     answer |-> <<"Could not generate or execute a valid query.">>,
     error_details |-> None, sql_query |-> None, result_set |-> None]

\* full_result as run creates it; absent keys are None
InitialFullResult ==
    [status |-> "failure",
     answer |-> <<"Could not generate or execute a valid query.">>,
     error_details |-> None, sql_query |-> None, result_set |-> None]

\* a dict literal {"status": "failure", "answer": answer} returned at once
FailureResult(answer) ==
    [status |-> "failure", answer |-> answer,
     error_details |-> None, sql_query |-> None, result_set |-> None]

\* off by one: range(MAX_RETRY_COUNT + 2)
AttemptRange_OneMore == 0..(max_retry_count + 1)

\* "for attempt in range(MAX_RETRY_COUNT + 1)"
AttemptRange == 0..max_retry_count

\* "except (ValueError, PermissionError, TimeoutError) as e"
CaughtByRun(exc) == exc \in {"ValueError", "PermissionError", "TimeoutError"}

\* the test of the last attempt left out: the final error is never written
IsLastAttempt_Never(a) == FALSE

\* "if attempt == MAX_RETRY_COUNT"
IsLastAttempt(a) == a = max_retry_count

\* the emptiness test left out
ContextIsEmpty_Never(context) == FALSE

\* "not schema_context"
ContextIsEmpty(context) == context = <<>>

\* return from retrieve_schema_chunks into run, and "if not schema_context"
CheckContext ==
    /\ pc = "retrieve_return"
    /\ schema_context' = Some(retrieved_context)
    /\ vector_ranks' = <<>>
    /\ keyword_ranks' = <<>>
    /\ fused_ranks' = <<>>
    /\ rank_pos' = 1
    /\ fetched' = <<>>
    /\ current_token_count' = 0
    /\ retrieved_context' = <<>>
    /\ truncation_warning' = truncation_warning
    /\ IF ContextIsEmpty(retrieved_context)
       THEN /\ outcome' = Returned(FailureResult(<<"Schema retrieval failed. Context is empty.">>))
            /\ pc' = "done"
       ELSE /\ outcome' = outcome
            /\ pc' = "generate"
    /\ UNCHANGED LoopLocals
    /\ UNCHANGED FusionLocals
    /\ UNCHANGED SynthesisLocals
    /\ UNCHANGED AgentState

\* the loop reaches its next iteration, or falls through to "return full_result"
Continue(result) ==
    IF attempt + 1 \in AttemptRange
    THEN /\ attempt' = attempt + 1
         /\ pc' = "generate"
         /\ outcome' = outcome
    ELSE /\ attempt' = attempt
         /\ pc' = "done"
         /\ outcome' = Returned(result)

\* "break", then "return full_result"
Break(result) ==
    /\ attempt' = attempt
    /\ pc' = "done"
    /\ outcome' = Returned(result)

\* a "return {...}" or an exception leaving run from inside the loop
Leave(how) ==
    /\ attempt' = attempt
    /\ pc' = "done"
    /\ outcome' = how

\* error_details = full_result.get('error_details'), then _generate_sql:
\* build the prompt, call the generator, parse its answer
GenerateSql ==
    /\ pc = "generate"
    /\ prompt' = Some(BuildSqlPrompt(UserQuery, schema_context[1], attempt > 0,
                                     full_result.error_details))
    /\ \E response_text \in Responses :
          /\ llm_response' = Some(response_text)
          /\ sql_query' = ParsedOrNone(response_text)
    /\ gen_calls' = gen_calls + 1
    /\ pc' = "check_sql"
    /\ UNCHANGED <<schema_context, attempt, full_result, exec_result, outcome,
                   exec_calls, db_connects, db_sent>>
    /\ UNCHANGED RetrieverLocals
    /\ UNCHANGED FusionLocals
    /\ UNCHANGED SynthesisLocals
    /\ UNCHANGED AgentState

\* "if not sql_query: full_result['answer'] = ...; continue"
CheckSql ==
    /\ pc = "check_sql"
    /\ IF sql_query = None
       THEN /\ full_result' =
                 [full_result EXCEPT !.answer =
                     <<"LLM failed to generate parseable SQL after",
                       ToString(attempt), "attempts.">>]
            /\ Continue(full_result')
       ELSE /\ full_result' = full_result
            /\ attempt' = attempt
            /\ outcome' = outcome
            /\ pc' = "execute"
    /\ UNCHANGED <<schema_context, prompt, llm_response, sql_query, exec_result,
                   gen_calls, exec_calls, db_connects, db_sent>>
    /\ UNCHANGED RetrieverLocals
    /\ UNCHANGED FusionLocals
    /\ UNCHANGED SynthesisLocals
    /\ UNCHANGED AgentState

\* the TimeoutError test left out: a timeout is retried like a ValueError
ReturnsAtOnce_SecurityOnly(exc) == exc = "PermissionError"

\* "if isinstance(e, PermissionError): return ..." and
\* "if isinstance(e, TimeoutError): return ..."
ReturnsAtOnce(exc) == exc \in {"PermissionError", "TimeoutError"}

\* the error of a failed execution is not kept
ErrorDetails_NotStored(query, error) == None

\* full_result['error_details'] = {'query': sql_query, 'error': str(e)}
ErrorDetails(query, error) == Some([query |-> query, error |-> error])

\* the try statement of run around execute_read_only_query(sql_query)
HandleExecution(r) ==
    IF r.exc = ""
    THEN /\ full_result' = [full_result EXCEPT !.status = "success",
                                                !.sql_query = sql_query,
                                                !.result_set = Some(r.rows)]
         /\ Break(full_result')
    ELSE IF ~CaughtByRun(r.exc)
    THEN /\ full_result' = full_result
         /\ Leave(Raised(r.exc))
    ELSE IF ReturnsAtOnce(r.exc)
    THEN /\ full_result' = full_result
         /\ Leave(Returned(FailureResult(
                IF r.exc = "PermissionError"
                THEN <<"Query execution terminated by security guardrail:">> \o r.msg
                ELSE r.msg)))
    ELSE IF IsLastAttempt(attempt)
    THEN /\ full_result' =
              [full_result EXCEPT
                  !.error_details = ErrorDetails(sql_query[1], r.msg),
                  !.answer = <<"SQL failed execution after max retries. Final error:">>
                             \o r.msg]
         /\ Break(full_result')
    ELSE /\ full_result' =
              [full_result EXCEPT
                  !.error_details = ErrorDetails(sql_query[1], r.msg)]
         /\ Continue(full_result')

ExecuteQuery ==
    /\ pc = "execute"
    /\ \E store \in StoreOutcomes :
          LET r == ExecuteReadOnlyQuery(sql_query[1], store)
          IN  /\ exec_result' = r
              /\ db_connects' = db_connects + r.connects
              /\ db_sent' = db_sent \o r.sent
              /\ HandleExecution(r)
    /\ exec_calls' = exec_calls + 1
    /\ UNCHANGED <<schema_context, prompt, llm_response, sql_query, gen_calls>>
    /\ UNCHANGED RetrieverLocals
    /\ UNCHANGED FusionLocals
    /\ UNCHANGED SynthesisLocals
    /\ UNCHANGED AgentState

(***************************************************************************)
(* PostQueryScrubber (core_logic/synthesis_module.py)                      *)
(*                                                                         *)
(* The two patterns of pii_patterns are matched as Python's re matches     *)
(* them: at a start position the match, if there is one, is the one the    *)
(* backtracking search finds first; re.search and re.sub try the start     *)
(* positions from left to right, and re.sub goes on behind each match.     *)
(***************************************************************************)
Digits == {"0", "1", "2", "3", "4", "5", "6", "7", "8", "9"}
LowerLetters ==
    {"a", "b", "c", "d", "e", "f", "g", "h", "i", "j", "k", "l", "m",
     "n", "o", "p", "q", "r", "s", "t", "u", "v", "w", "x", "y", "z"}
UpperLetters ==
    {"A", "B", "C", "D", "E", "F", "G", "H", "I", "J", "K", "L", "M",
     "N", "O", "P", "Q", "R", "S", "T", "U", "V", "W", "X", "Y", "Z"}
Letters == LowerLetters \cup UpperLetters

\* [a-zA-Z0-9._%+-], [a-zA-Z0-9.-], [-\.\s]
EmailLocalChars == Letters \cup Digits \cup {".", "_", "%", "+", "-"}
EmailDomainChars == Letters \cup Digits \cup {".", "-"}
PhoneSeparators == {"-", "."} \cup Whitespace

\* str.lower() of a character and of a text
UpperToLower ==
    [A |-> "a", B |-> "b", C |-> "c", D |-> "d", E |-> "e", F |-> "f", G |-> "g",
     H |-> "h", I |-> "i", J |-> "j", K |-> "k", L |-> "l", M |-> "m", N |-> "n",
     O |-> "o", P |-> "p", Q |-> "q", R |-> "r", S |-> "s", T |-> "t", U |-> "u",
     V |-> "v", W |-> "w", X |-> "x", Y |-> "y", Z |-> "z"]
LowerChar(c) == IF c \in UpperLetters THEN UpperToLower[c] ELSE c
Lower(s) == [i \in 1..Len(s) |-> LowerChar(s[i])]

\* number of characters of class chars that text holds in a row from place i on
RECURSIVE RunLength(_, _, _)
RunLength(text, i, chars) ==
    IF i > Len(text) \/ text[i] \notin chars THEN 0
    ELSE 1 + RunLength(text, i + 1, chars)

\* text holds n digits in a row from place i on
DigitsAt(text, i, n) ==
    /\ i + n - 1 <= Len(text)
    /\ \A p \in i..(i + n - 1) : text[p] \in Digits

Max(S) == CHOOSE x \in S : \A y \in S : x >= y

\* [a-zA-Z0-9._%+-]+@[a-zA-Z0-9.-]+\.[a-zA-Z]{2,} matched at place i: the place
\* behind the match, or 0.  The local part is the whole run in front of "@";
\* the greedy domain gives back characters until a "." with two letters
\* behind it is next, and the last part takes every letter that follows.
EmailMatchEnd(text, i) ==
    LET local == RunLength(text, i, EmailLocalChars)
        at == i + local
    IN  IF local = 0 \/ at > Len(text) \/ text[at] # "@" THEN 0
        ELSE LET domain == RunLength(text, at + 1, EmailDomainChars)
                 dots == {d \in (at + 2)..(at + domain) :
                             /\ text[d] = "."
                             /\ RunLength(text, d + 1, Letters) >= 2}
             IN  IF dots = {} THEN 0
                 ELSE Max(dots) + 1 + RunLength(text, Max(dots) + 1, Letters)

\* an optional separator, [-\.\s]??, at place i: the place behind it
SkipSeparator(text, i) ==
    IF i <= Len(text) /\ text[i] \in PhoneSeparators THEN i + 1 ELSE i

\* \d{3}[-\.\s]??\d{3}[-\.\s]??\d{4} from place i on: the place behind it, or 0
PlainPhoneEnd(text, i) ==
    IF ~DigitsAt(text, i, 3) THEN 0
    ELSE LET second == SkipSeparator(text, i + 3)
         IN  IF ~DigitsAt(text, second, 3) THEN 0
             ELSE LET third == SkipSeparator(text, second + 3)
                  IN  IF DigitsAt(text, third, 4) THEN third + 4 ELSE 0

\* \(\d{3}\)\s*\d{3}[-\.\s]??\d{4} from place i on
BracketPhoneEnd(text, i) ==
    IF ~(/\ i + 4 <= Len(text)
         /\ text[i] = "("
         /\ DigitsAt(text, i + 1, 3)
         /\ text[i + 4] = ")")
    THEN 0
    ELSE LET second == i + 5 + RunLength(text, i + 5, Whitespace)
         IN  IF ~DigitsAt(text, second, 3) THEN 0
             ELSE LET third == SkipSeparator(text, second + 3)
                  IN  IF DigitsAt(text, third, 4) THEN third + 4 ELSE 0

\* the PHONE pattern matched at place i: the first alternative that matches
PhoneMatchEnd(text, i) ==
    IF PlainPhoneEnd(text, i) > 0 THEN PlainPhoneEnd(text, i)
    ELSE IF BracketPhoneEnd(text, i) > 0 THEN BracketPhoneEnd(text, i)
    ELSE IF DigitsAt(text, i, 7) THEN i + 7
    ELSE 0

PiiTypes == <<"EMAIL", "PHONE">>     \* the keys of pii_patterns, in dict order

MatchEnd(pii_type, text, i) ==
    IF pii_type = "EMAIL" THEN EmailMatchEnd(text, i) ELSE PhoneMatchEnd(text, i)

\* a mask token that is itself phone-shaped
MaskToken_PhoneShaped(pii_type) ==
    <<"[", "5", "5", "5", "1", "2", "3", "4", "]">>

\* the text "[MASKED_" + pii_type + "]"
MaskToken(pii_type) ==
    <<"[", "M", "A", "S", "K", "E", "D", "_">>
    \o (IF pii_type = "EMAIL" THEN <<"E", "M", "A", "I", "L">>
        ELSE IF pii_type = "PHONE" THEN <<"P", "H", "O", "N", "E">>
        ELSE <<"N", "A", "M", "E">>)
    \o <<"]">>

\* re.search(pattern, text)
ReSearch(pii_type, text) == \E i \in 1..Len(text) : MatchEnd(pii_type, text, i) > 0

\* re.sub(pattern, "[MASKED_...]", text), from place i on
RECURSIVE ReSubFrom(_, _, _)
ReSubFrom(pii_type, text, i) ==
    IF i > Len(text) THEN <<>>
    ELSE LET behind == MatchEnd(pii_type, text, i)
         IN  IF behind > 0
             THEN MaskToken(pii_type) \o ReSubFrom(pii_type, text, behind)
             ELSE <<text[i]>> \o ReSubFrom(pii_type, text, i + 1)

ReSub(pii_type, text) == ReSubFrom(pii_type, text, 1)

\* text.replace(old, new), from place i on
RECURSIVE ReplaceFrom(_, _, _, _)
ReplaceFrom(text, old, new, i) ==
    IF i > Len(text) THEN <<>>
    ELSE IF i + Len(old) - 1 <= Len(text) /\ SubSeq(text, i, i + Len(old) - 1) = old
    THEN new \o ReplaceFrom(text, old, new, i + Len(old))
    ELSE <<text[i]>> \o ReplaceFrom(text, old, new, i + 1)

Replace(text, old, new) == ReplaceFrom(text, old, new, 1)

JohnDoe == <<"J", "o", "h", "n", " ", "D", "o", "e">>
AddressWord == <<"a", "d", "d", "r", "e", "s", "s">>
NameWord == <<"n", "a", "m", "e">>

\* isinstance(value, str) taken to hold for every value
IsStr_Always(value) == TRUE

\* isinstance(value, str)
IsStr(value) == value.type = "str"

\* _mask_value: both patterns are searched in text and substituted in
\* masked_text; the name/address branch returns text.replace(...)
MaskValue(value) ==
    LET text == value.text
        after_email == IF ReSearch(PiiTypes[1], text)
                       THEN ReSub(PiiTypes[1], text) ELSE text
        masked_text == IF ReSearch(PiiTypes[2], text)
                       THEN ReSub(PiiTypes[2], after_email) ELSE after_email
    IN  IF Contains(Lower(text), AddressWord) \/ Contains(Lower(text), NameWord)
        THEN StrValue(Replace(text, JohnDoe, MaskToken("NAME")))
        ELSE StrValue(masked_text)

\* the inner for loop of scrub_results: a new dict with the keys of row
ScrubRow(row) ==
    [key \in DOMAIN row |-> IF IsStr(row[key]) THEN MaskValue(row[key]) ELSE row[key]]

\* scrub_results: a new list with one new row per row, in order
scrub_results(rows) == [n \in 1..Len(rows) |-> ScrubRow(rows[n])]

(***************************************************************************)
(* SynthesisLLM.synthesize_answer and process_query (main.py)              *)
(***************************************************************************)
\* the rows handed on without scrubbing
ScrubbedForSynthesis_Raw(rows) == rows

\* scrubbed_results = self.scrubber.scrub_results(result_set)
ScrubbedForSynthesis(rows) == scrub_results(rows)

\* synthesize_answer: the rows it scrubs, the prompt it formats and the
\* answer it returns; "not scrubbed_results" holds for the empty list
SynthesizeAnswer(user_question, rows) ==
    LET scrubbed == ScrubbedForSynthesis(rows)
    IN  IF scrubbed = <<>>
        THEN [scrubbed |-> scrubbed,
              prompt |-> [template |-> "EMPTY_RESULT_PROMPT_TEMPLATE",
                          user_question |-> user_question,
                          result_set_json |-> None],
              answer |-> [kind |-> "No Results Found", result_json |-> None]]
        ELSE [scrubbed |-> scrubbed,
              prompt |-> [template |-> "SYNTHESIS_PROMPT_TEMPLATE",
                          user_question |-> user_question,
                          result_set_json |-> Some(scrubbed)],
              answer |-> [kind |-> "Answer successfully synthesized",
                          result_json |-> Some(scrubbed)]]

\* process_query after agent.run has returned status success:
\* final_answer = synthesizer.synthesize_answer(query, agent_output['result_set']).
\* On any other status process_query only prints the answer of the run.
ProcessQuerySuccess ==
    /\ pc = "done"
    /\ outcome.kind = "returned"
    /\ outcome.result[1].status = "success"
    /\ LET s == SynthesizeAnswer(UserQuery, outcome.result[1].result_set[1])
       IN  /\ result_set' = outcome.result[1].result_set[1]
           /\ scrubbed_results' = Some(s.scrubbed)
           /\ synthesis_prompt' = Some(s.prompt)
           /\ final_answer' = Some(s.answer)
    /\ pc' = "answered"
    /\ UNCHANGED <<rescrubbed_results, schema_context, outcome>>
    /\ UNCHANGED RetrieverLocals
    /\ UNCHANGED LoopLocals
    /\ UNCHANGED FusionLocals
    /\ UNCHANGED AgentState

Defaults ==
    /\ vector_ranks = <<>>
    /\ keyword_ranks = <<>>
    /\ fused_ranks = <<>>
    /\ rank_pos = 1
    /\ fetched = <<>>
    /\ current_token_count = 0
    /\ retrieved_context = <<>>
    /\ truncation_warning = FALSE
    /\ schema_context = None
    /\ attempt = 0
    /\ full_result = InitialFullResult
    /\ prompt = None
    /\ llm_response = None
    /\ exec_result = NoExecResult
    /\ outcome = NoOutcome
    /\ gen_calls = 0
    /\ exec_calls = 0
    /\ db_connects = 0
    /\ db_sent = <<>>

\* reciprocal_rank_fusion has not been called on its own
FusionDefaults ==
    /\ rrf_input = <<>>
    /\ rrf_scores = <<>>

\* the retry count of settings.py
ConfigDefaults == max_retry_count = MAX_RETRY_COUNT

\* an agent as LLMAgent.__init__ leaves it, with one request only
ClientDefaults ==
    /\ error_mode = FALSE
    /\ requests = <<>>
    /\ store_fault = None

\* neither scrub_results nor synthesize_answer has been called
SynthesisDefaults ==
    /\ result_set = <<>>
    /\ scrubbed_results = None
    /\ rescrubbed_results = None
    /\ synthesis_prompt = None
    /\ final_answer = None

\* LLMAgent.run(user_query) has been entered
Init ==
    /\ pc = "semantic_search"
    /\ sql_query = None
    /\ Defaults
    /\ FusionDefaults
    /\ SynthesisDefaults
    /\ ConfigDefaults
    /\ ClientDefaults

Next ==
    \/ SemanticSearch
    \/ KeywordSearch
    \/ Fusion
    \/ AssembleChunk
    \/ CheckContext
    \/ GenerateSql
    \/ CheckSql
    \/ ExecuteQuery
    \/ ProcessQuerySuccess

Spec == Init /\ [][Next]_vars

\* run is a sequential program: a step that is enabled is taken
FairSpec == Spec /\ WF_vars(Next)

(***************************************************************************)
(* execute_read_only_query on its own, for a statement of GuardStatements  *)
(***************************************************************************)
MaxPad == 1              \* longest run of leading white space of a statement

LeadPads == UNION {[1..n -> Whitespace] : n \in 0..MaxPad}

GuardWords ==
    {SelectKeyword, WithKeyword, DeleteOrders,
     <<"s", "e", "l", "e", "c", "t">>, <<"S", "e", "L", "e", "c", "T">>,
     <<"w", "i", "t", "h">>, <<"d", "e", "l", "e", "t", "e">>,
     <<"D", "R", "O", "P">>, <<"S", "E", "L", "E", "C">>, <<"W", "I", "T">>,
     <<"S", "E", "L", " ", "E", "C", "T">>, <<"(">> \o SelectKeyword,
     <<"X">> \o WithKeyword, <<>>}

GuardTails == {<<>>, <<" ", "1", ";">>, <<"\n">>, <<" ">> \o SelectKeyword}

GuardStatements ==
    {pad \o word \o tail : pad \in LeadPads, word \in GuardWords, tail \in GuardTails}

GuardInit ==
    /\ pc = "guard_call"
    /\ sql_query \in {Some(sql) : sql \in GuardStatements}
    /\ Defaults
    /\ FusionDefaults
    /\ SynthesisDefaults
    /\ ConfigDefaults
    /\ ClientDefaults

GuardExecute ==
    /\ pc = "guard_call"
    /\ \E store \in StoreOutcomes :
          LET r == ExecuteReadOnlyQuery(sql_query[1], store)
          IN  /\ exec_result' = r
              /\ db_connects' = db_connects + r.connects
              /\ db_sent' = db_sent \o r.sent
    /\ exec_calls' = exec_calls + 1
    /\ pc' = "guard_done"
    /\ UNCHANGED <<schema_context, attempt, full_result, prompt, llm_response,
                   sql_query, outcome, gen_calls>>
    /\ UNCHANGED RetrieverLocals
    /\ UNCHANGED FusionLocals
    /\ UNCHANGED SynthesisLocals
    /\ UNCHANGED AgentState

GuardNext == GuardExecute

GuardSpec == GuardInit /\ [][GuardNext]_vars

(***************************************************************************)
(* Properties                                                              *)
(***************************************************************************)
FatalClasses == {"PermissionError", "TimeoutError"}

ReturnedStatus == IF outcome.kind = "returned" THEN outcome.result[1].status ELSE ""

\* C1: one call of run makes at most MAX_RETRY_COUNT + 1 generator calls
\* (at most 2 with MAX_RETRY_COUNT = 1), whatever the generator answers and
\* however the executions end.
C1_AtMostRetryPlusOneGenerations ==
    /\ gen_calls <= MAX_RETRY_COUNT + 1
    /\ gen_calls <= attempt + 1

\* a request that used its whole budget: the regeneration happened
C1_Witness ==
    /\ pc = "done"
    /\ gen_calls = MAX_RETRY_COUNT + 1
    /\ gen_calls > 1

\* C2: once retrieval has returned, run ends by returning an outcome whose
\* status is success or failure, for any generator outputs and execution
\* outcomes.
C2_EndsInSuccessOrFailed ==
    (pc = "done" /\ schema_context # None)
        => /\ outcome.kind = "returned"
           /\ ReturnedStatus \in {"success", "failure"}

\* C3: when execute_read_only_query raises PermissionError or TimeoutError,
\* run has ended at once with status=failure: the generator and the guard
\* have been called once per attempt up to this one and never again, even
\* with retry budget left.
C3_FatalFailsAtOnce ==
    exec_result.exc \in FatalClasses
        => /\ pc = "done"
           /\ outcome.kind = "returned"
           /\ outcome.result[1].status = "failure"
           /\ outcome.result[1].result_set = None
           /\ gen_calls = attempt + 1
           /\ exec_calls <= gen_calls

\* 'DELETE FROM ...' on the first attempt: zero retries although one is left
C3_Witness ==
    /\ pc = "done"
    /\ exec_result.exc = "PermissionError"
    /\ sql_query = Some(DeleteOrders)
    /\ attempt = 0
    /\ attempt < MAX_RETRY_COUNT
    /\ gen_calls = 1

\* the statement begins, after leading white space and without regard to
\* case, with SELECT or WITH
BeginsWithReadKeyword(sql) ==
    \E lead \in 0..Len(sql) :
        /\ \A j \in 1..lead : sql[j] \in Whitespace
        /\ \E keyword \in {SelectKeyword, WithKeyword} :
              /\ lead + Len(keyword) <= Len(sql)
              /\ \A j \in 1..Len(keyword) : UpperChar(sql[lead + j]) = keyword[j]

\* C4: execute_read_only_query raises PermissionError exactly for the
\* statements that, trimmed and upper-cased, do not begin with SELECT or WITH,
\* and then no connection has been opened and nothing has been sent.
C4_SecurityViolationIffNotRead ==
    (pc = "guard_done")
        => /\ (exec_result.exc = "PermissionError")
                <=> ~BeginsWithReadKeyword(sql_query[1])
           /\ exec_result.exc = "PermissionError"
                => /\ db_connects = 0
                   /\ db_sent = <<>>
                   /\ exec_result.connects = 0

\* a rejected statement with leading white space
C4_Witness ==
    /\ pc = "guard_done"
    /\ exec_result.exc = "PermissionError"
    /\ Len(sql_query[1]) > 1
    /\ sql_query[1][1] \in Whitespace
    /\ db_connects = 0

RECURSIVE SumOfLengths(_)
SumOfLengths(context) ==
    IF context = <<>> THEN 0
    ELSE Head(context).content.len + SumOfLengths(Tail(context))

RECURSIVE SumOfFloors(_)
SumOfFloors(context) ==
    IF context = <<>> THEN 0
    ELSE (Head(context).content.len \div 4) + SumOfFloors(Tail(context))

ReturnedContext == IF schema_context = None THEN <<>> ELSE schema_context[1]

\* C5 as stated: the sum of len(content)/4 over the chunks of the context
\* never exceeds TOKEN_BUDGET (sum of len/4 <= B iff sum of len <= 4 * B).
C5_SumOfQuotientsWithinBudget ==
    /\ SumOfLengths(retrieved_context) <= 4 * TOKEN_BUDGET
    /\ SumOfLengths(ReturnedContext) <= 4 * TOKEN_BUDGET

\* C5 amended: the sum of floor(len(content)/4) over the chunks of the
\* context never exceeds TOKEN_BUDGET, after every iteration of the assembly
\* loop and in the context run receives.
C5_SumOfFloorsWithinBudget ==
    /\ SumOfFloors(retrieved_context) <= TOKEN_BUDGET
    /\ current_token_count = SumOfFloors(retrieved_context)
    /\ SumOfFloors(ReturnedContext) <= TOKEN_BUDGET

\* two chunks fill the budget exactly
C5_Witness ==
    /\ pc = "retrieve_return"
    /\ Len(retrieved_context) >= 2
    /\ SumOfFloors(retrieved_context) = TOKEN_BUDGET

ContextTables == {retrieved_context[i].table_name : i \in 1..Len(retrieved_context)}

\* C6: retrieve_schema_chunks returns truncated = true exactly when some
\* identifier of the fused ranking has no chunk in the returned context.
C6_TruncatedIffRankedIdMissing ==
    (pc = "retrieve_return")
        => (truncation_warning
              <=> \E i \in 1..Len(fused_ranks) : fused_ranks[i] \notin ContextTables)

\* a chunk was rejected after another one was taken
C6_Witness ==
    /\ pc = "retrieve_return"
    /\ truncation_warning
    /\ retrieved_context # <<>>
    /\ Len(retrieved_context) < Len(fused_ranks)

\* C7: with a context of zero chunks run returns the retrieval failure at
\* once, without any generator call or execution; every generator call is
\* made with a non-empty context.
C7_EmptyContextNeverGenerates ==
    /\ schema_context = Some(<<>>)
         => /\ pc = "done"
            /\ outcome = Returned(FailureResult(<<"Schema retrieval failed. Context is empty.">>))
            /\ gen_calls = 0
            /\ exec_calls = 0
    /\ (gen_calls > 0 \/ prompt # None)
         => /\ schema_context # None
            /\ schema_context[1] # <<>>
            /\ prompt[1].schema_context = schema_context[1]

\* retrieval came back empty and the request has failed
C7_Witness ==
    /\ pc = "done"
    /\ schema_context = Some(<<>>)
    /\ outcome.kind = "returned"
    /\ gen_calls = 0

\* C8: a failed execution, the unclassified RuntimeError included, ends the
\* request in a returned outcome with status=failure and an answer; no
\* exception escapes run.
C8_ExecutionFailureIsReturned ==
    (pc = "done" /\ exec_result.called /\ exec_result.exc # "")
        => /\ outcome.kind = "returned"
           /\ ReturnedStatus = "failure"
           /\ outcome.result[1].answer # <<>>

\* C9: the store's statement-timeout signal gives TimeoutError, and every
\* other error of the store gives ValueError carrying the error text.
C9_EveryStoreErrorClassified ==
    (exec_result.store # None /\ exec_result.store[1].kind = "error")
        => LET e == exec_result.store[1]
           IN  IF e.cls = "OperationalError" /\ Contains(e.msg, <<"statement timeout">>)
               THEN exec_result.exc = "TimeoutError"
               ELSE /\ exec_result.exc = "ValueError"
                    /\ Contains(exec_result.msg, e.msg)

\* C10: an error of a search provider does not abort retrieval.
C10_ProviderErrorDoesNotAbort ==
    outcome.exc \notin {"SemanticProviderError", "KeywordProviderError"}

\* the correction prompt of build_sql_prompt for a failed statement and its error
CorrectionPrompt(failed_query, error_message) ==
    [template |-> "CRITIC_PROMPT_TEMPLATE",
     failed_query |-> Some(failed_query),
     error_message |-> Some(error_message),
     schema_context |-> schema_context[1],
     user_query |-> UserQuery]

\* C11: when an attempt ends in a recoverable execution failure (ValueError)
\* and attempts remain, the next generation is given the correction prompt
\* built from that attempt's statement and error message, with the original
\* context and question; and when the statement of that second attempt
\* executes, run returns status success after exactly 2 generator calls.
C11_RetryUsesCorrectionPrompt ==
    /\ [][(pc = "generate" /\ attempt > 0 /\ sql_query # None)
            => (/\ exec_result.exc = "ValueError"
                /\ prompt' = Some(CorrectionPrompt(sql_query[1], exec_result.msg)))]_vars
    /\ [](( /\ pc = "done"
            /\ attempt = 1
            /\ prompt # None
            /\ prompt[1].template = "CRITIC_PROMPT_TEMPLATE"
            /\ exec_result.exc = "")
          => (ReturnedStatus = "success" /\ gen_calls = 2))

\* a run whose first statement failed in execution and whose second one,
\* generated from the correction prompt, executed
C11_Witness ==
    /\ pc = "done"
    /\ ReturnedStatus = "success"
    /\ gen_calls = 2
    /\ exec_calls = 2
    /\ prompt[1].template = "CRITIC_PROMPT_TEMPLATE"
    /\ prompt[1].failed_query # Some(sql_query[1])

(***************************************************************************)
(* reciprocal_rank_fusion on its own, for the inputs of FusionInputs       *)
(***************************************************************************)
MaxLists == 3            \* most ranked lists handed to one fusion

\* ranked lists in which no identifier occurs twice
Rankings == {ranks \in RankedLists :
                \A i, j \in 1..Len(ranks) : ranks[i] = ranks[j] => i = j}

\* The call of retrieve_schema_chunks hands over two provider lists as they
\* come; other callers hand over any number of rankings.
FusionInputs ==
    {<<v, kw>> : v \in RankedLists, kw \in RankedLists}
    \cup UNION {[1..n -> Rankings] : n \in 0..MaxLists}

FusionInit ==
    /\ pc = "rrf_call"
    /\ sql_query = None
    /\ Defaults
    /\ SynthesisDefaults
    /\ ConfigDefaults
    /\ ClientDefaults
    /\ \E input \in FusionInputs :
          /\ rrf_input = input
          /\ rrf_scores = <<>>

\* sorted_docs = reciprocal_rank_fusion(search_results)
ReciprocalRankFusion ==
    /\ pc = "rrf_call"
    /\ rrf_scores' = FusedScores(rrf_input, RRF_K)
    /\ fused_ranks' = reciprocal_rank_fusion(rrf_input, RRF_K)
    /\ pc' = "rrf_done"
    /\ UNCHANGED <<rrf_input, vector_ranks, keyword_ranks, rank_pos, fetched,
                   current_token_count, retrieved_context, truncation_warning,
                   schema_context, outcome>>
    /\ UNCHANGED LoopLocals
    /\ UNCHANGED SynthesisLocals
    /\ UNCHANGED AgentState

FusionNext == ReciprocalRankFusion

FusionSpec == FusionInit /\ [][FusionNext]_vars

\* the identifiers of a ranked list, and of all lists of an input
IdsOf(ranks) == {ranks[i] : i \in 1..Len(ranks)}
AllIds(search_results) == UNION {IdsOf(search_results[l]) : l \in 1..Len(search_results)}

RECURSIVE Concatenation(_)
Concatenation(search_results) ==
    IF search_results = <<>> THEN <<>>
    ELSE Head(search_results) \o Concatenation(Tail(search_results))

\* position of the first occurrence of an identifier in the concatenation
FirstSeen(search_results, doc_id) ==
    LET all == Concatenation(search_results)
    IN  Min({i \in 1..Len(all) : all[i] = doc_id})

\* Sum over every occurrence of doc_id of 1 / (RRF_K + rank + 1), rank 0 for
\* the first entry of a list, as an integer over the common denominator.
SumOfReciprocals(search_results, doc_id) ==
    LET denom == ScoreDenominator(MaxLenOf(search_results), RRF_K)
        Term(l, i) == IF search_results[l][i] = doc_id
                      THEN denom \div (RRF_K + i) ELSE 0
        RECURSIVE InList(_, _)
        InList(l, i) == IF i = 0 THEN 0 ELSE Term(l, i) + InList(l, i - 1)
        RECURSIVE Lists(_)
        Lists(l) == IF l = 0 THEN 0
                    ELSE InList(l, Len(search_results[l])) + Lists(l - 1)
    IN  Lists(Len(search_results))

\* C12: reciprocal_rank_fusion returns exactly the identifiers that occur in
\* at least one input list, each once, sorted by descending score, the score
\* being the sum of 1 / (k + rank + 1) over the identifier's places in the
\* lists; identifiers of equal score come in the order in which they are first
\* seen in the concatenation of the lists; the input lists are not modified.
C12_FusedOrder ==
    /\ [](pc = "rrf_done" =>
            /\ IdsOf(fused_ranks) = AllIds(rrf_input)
            /\ Len(fused_ranks) = Cardinality(AllIds(rrf_input))
            /\ \A i, j \in 1..Len(fused_ranks) :
                  i < j =>
                     LET si == SumOfReciprocals(rrf_input, fused_ranks[i])
                         sj == SumOfReciprocals(rrf_input, fused_ranks[j])
                     IN  \/ si > sj
                         \/ /\ si = sj
                            /\ FirstSeen(rrf_input, fused_ranks[i])
                                 < FirstSeen(rrf_input, fused_ranks[j]))
    /\ [][rrf_input' = rrf_input]_vars

\* three lists fused, with two identifiers of equal score and one ahead of them
C12_Witness ==
    /\ pc = "rrf_done"
    /\ Len(rrf_input) = 3
    /\ Len(fused_ranks) = 3
    /\ SumOfReciprocals(rrf_input, fused_ranks[1]) > SumOfReciprocals(rrf_input, fused_ranks[2])
    /\ SumOfReciprocals(rrf_input, fused_ranks[2]) = SumOfReciprocals(rrf_input, fused_ranks[3])

\* the input in which the entries at places i and j of list l have changed places
WithSwapped(search_results, l, i, j) ==
    [search_results EXCEPT ![l] = [@ EXCEPT ![i] = search_results[l][j],
                                            ![j] = search_results[l][i]]]

\* number of lists of the input that hold doc_id at place i
ListsHolding(search_results, doc_id, i) ==
    Cardinality({l \in 1..Len(search_results) :
                    i <= Len(search_results[l]) /\ search_results[l][i] = doc_id})

\* every rank doc_e has in some lists, doc_d has in at least as many lists
SameRanksAndMore(search_results, doc_d, doc_e) ==
    \A i \in 1..MaxLenOf(search_results) :
        ListsHolding(search_results, doc_e, i) <= ListsHolding(search_results, doc_d, i)

\* an identifier moves from place i to the later place j of list l
MovesBack(search_results, l, i, j) ==
    /\ i < j
    /\ \A n \in 1..Len(search_results[l]) :
          search_results[l][n] = search_results[l][i] => n = i

\* C13: the fused score of an identifier does not increase when its rank
\* number in one list increases while the other lists stay as they are, and an
\* identifier that has the ranks of another one, in the same number of lists
\* or more, scores at least as much.
C13_ScoreMonotone ==
    pc = "rrf_done" =>
       /\ \A l \in 1..Len(rrf_input) :
             \A i, j \in 1..Len(rrf_input[l]) :
                MovesBack(rrf_input, l, i, j) =>
                   FusedScores(WithSwapped(rrf_input, l, i, j), RRF_K)[rrf_input[l][i]]
                      <= rrf_scores[rrf_input[l][i]]
       /\ \A doc_d, doc_e \in DOMAIN rrf_scores :
             SameRanksAndMore(rrf_input, doc_d, doc_e) => rrf_scores[doc_d] >= rrf_scores[doc_e]

\* an identifier scores strictly less at a later place of the second list,
\* and an identifier found in three lists scores more than one found in two
C13_Witness ==
    /\ pc = "rrf_done"
    /\ Len(rrf_input) = 3
    /\ Len(rrf_input[2]) = 2
    /\ MovesBack(rrf_input, 2, 1, 2)
    /\ FusedScores(WithSwapped(rrf_input, 2, 1, 2), RRF_K)[rrf_input[2][1]]
          < rrf_scores[rrf_input[2][1]]
    /\ \E doc_d, doc_e \in DOMAIN rrf_scores :
          /\ SameRanksAndMore(rrf_input, doc_d, doc_e)
          /\ \A l \in 1..3 : doc_d \in IdsOf(rrf_input[l])
          /\ Cardinality({l \in 1..3 : doc_e \in IdsOf(rrf_input[l])}) = 2
          /\ rrf_scores[doc_d] > rrf_scores[doc_e]

(***************************************************************************)
(* scrub_results on its own, for the result sets of ResultSets             *)
(***************************************************************************)
MaxFragments == 2        \* most fragments a text of a field is made of
MaxRows == 2             \* most rows of a result set

\* pieces of field texts: PII-shaped pieces, the words of the literal
\* substitution, and characters that lengthen or break a match
Fragments ==
    {EmailText,
     SevenDigits,
     <<"5", "5", "5", "-", "1", "2", "3", "-", "4", "5", "6", "7">>,
     <<"(", "5", "5", "5", ")", " ", "1", "2", "3", "-", "4", "5", "6", "7">>,
     JohnDoe,
     <<"N", "a", "m", "e", ":", " ">>,
     <<"A", "d", "d", "r", "e", "s", "s", " ">>,
     <<" ">>, <<"x">>, <<"@">>, <<".">>, <<"1", "2">>}

FieldTexts == {Concatenation(pieces) : pieces \in UNION {[1..n -> Fragments] : n \in 0..MaxFragments}}

NonStrValues == {IntValue(SevenDigits), NoneValue}

FirstRows ==
    {[contact |-> StrValue(text), total_amount |-> v] :
        text \in FieldTexts, v \in NonStrValues}

FurtherRows ==
    {[contact |-> StrValue(EmailText), total_amount |-> NoneValue],
     [contact |-> IntValue(SevenDigits), total_amount |-> StrValue(JohnDoe)]}

\* result sets of at most MaxRows rows
ResultSets ==
    {<<>>} \cup
    {<<first>> \o rest : first \in FirstRows,
                         rest \in UNION {[1..n -> FurtherRows] : n \in 0..(MaxRows - 1)}}

ScrubInit ==
    /\ pc = "scrub_call"
    /\ sql_query = None
    /\ Defaults
    /\ FusionDefaults
    /\ ConfigDefaults
    /\ ClientDefaults
    /\ result_set \in ResultSets
    /\ scrubbed_results = None
    /\ rescrubbed_results = None
    /\ synthesis_prompt = None
    /\ final_answer = None

NotInScrub == <<vector_ranks, keyword_ranks, fused_ranks, rank_pos, fetched,
                current_token_count, retrieved_context, truncation_warning,
                schema_context, outcome, synthesis_prompt, final_answer>>

\* scrubbed_results = scrub_results(result_set)
ScrubResults ==
    /\ pc = "scrub_call"
    /\ scrubbed_results' = Some(scrub_results(result_set))
    /\ pc' = "scrubbed"
    /\ UNCHANGED <<result_set, rescrubbed_results>>
    /\ UNCHANGED NotInScrub
    /\ UNCHANGED LoopLocals
    /\ UNCHANGED FusionLocals
    /\ UNCHANGED AgentState

\* scrub_results called on what scrub_results has returned
ScrubResultsAgain ==
    /\ pc = "scrubbed"
    /\ rescrubbed_results' = Some(scrub_results(scrubbed_results[1]))
    /\ pc' = "scrubbed_twice"
    /\ UNCHANGED <<result_set, scrubbed_results>>
    /\ UNCHANGED NotInScrub
    /\ UNCHANGED LoopLocals
    /\ UNCHANGED FusionLocals
    /\ UNCHANGED AgentState

ScrubNext == ScrubResults \/ ScrubResultsAgain

ScrubSpec == ScrubInit /\ [][ScrubNext]_vars

\* the string fields of the rows handed to scrub_results
StringFields ==
    {<<n, key>> \in (1..Len(result_set)) \X {"contact", "total_amount"} :
        key \in DOMAIN result_set[n] /\ IsStr(result_set[n][key])}

\* every email-shaped and every phone-shaped match replaced by its token, the
\* rest of the text kept; for a text with "name" or "address" in it the
\* literal substitution on top of that
PatternsMasked(text) ==
    LET masked == ReSub("PHONE", ReSub("EMAIL", text))
    IN  IF Contains(Lower(text), AddressWord) \/ Contains(Lower(text), NameWord)
        THEN Replace(masked, JohnDoe, MaskToken("NAME"))
        ELSE masked

\* C14: in every string field of every row scrub_results replaces each
\* email-shaped and each phone-shaped match by [MASKED_EMAIL] / [MASKED_PHONE]
\* and keeps the surrounding text, also in fields that contain "name" or
\* "address", where the literal substitution comes in addition.
C14_EveryMatchMasked ==
    pc = "scrubbed" =>
       \A f \in StringFields :
          scrubbed_results[1][f[1]][f[2]]
             = StrValue(PatternsMasked(result_set[f[1]][f[2]].text))

\* C15: scrubbing is idempotent: scrub_results applied to its own result
\* returns it unchanged, mask tokens and remaining text included.
C15_ScrubIdempotent ==
    pc = "scrubbed_twice" => rescrubbed_results = scrubbed_results

\* a second pass over rows that hold [MASKED_EMAIL], [MASKED_PHONE] and a
\* literal left in place
C15_Witness ==
    /\ pc = "scrubbed_twice"
    /\ Len(result_set) = 2
    /\ scrubbed_results[1][1].contact
          = StrValue(MaskToken("EMAIL") \o MaskToken("PHONE"))
    /\ scrubbed_results[1][2].total_amount = StrValue(JohnDoe)

\* a second pass over a text that holds [MASKED_NAME] behind the word that
\* brought the literal substitution about
C15_WitnessName ==
    /\ pc = "scrubbed_twice"
    /\ Len(result_set) = 1
    /\ Contains(Lower(scrubbed_results[1][1].contact.text), NameWord \o <<":", " ", "[">>)
    /\ Contains(scrubbed_results[1][1].contact.text, MaskToken("NAME"))

\* C16: scrub_results leaves every value that is not a string unchanged,
\* returns as many rows as it was given, in the same order and with the same
\* keys in every row, and does not modify the rows it was given.
C16_FrameOfScrub ==
    /\ [](pc = "scrubbed" =>
            /\ Len(scrubbed_results[1]) = Len(result_set)
            /\ \A n \in 1..Len(result_set) :
                  /\ DOMAIN scrubbed_results[1][n] = DOMAIN result_set[n]
                  /\ \A key \in DOMAIN result_set[n] :
                        result_set[n][key].type # "str"
                           => scrubbed_results[1][n][key] = result_set[n][key])
    /\ [][result_set' = result_set]_vars

\* two rows scrubbed: a phone-shaped integer and a None passed through, a
\* string masked
C16_Witness ==
    /\ pc = "scrubbed"
    /\ Len(result_set) = 2
    /\ result_set[1].total_amount = IntValue(SevenDigits)
    /\ result_set[2].total_amount = NoneValue
    /\ scrubbed_results[1][1].total_amount = IntValue(SevenDigits)
    /\ scrubbed_results[1][2].contact # result_set[2].contact

\* the rows of a run that has returned status success
RowsOfRun == outcome.result[1].result_set[1]

\* C17: on a successful run the result set goes through scrub_results before
\* any synthesis prompt or answer is built, and what the prompt and the answer
\* hold are the scrubbed rows; when the run succeeds with zero rows the
\* sanitizer is handed the empty sequence and synthesis takes the no-results
\* branch, never the grounded-answer branch.
C17_ScrubbedBeforeSynthesis ==
    /\ (synthesis_prompt # None \/ final_answer # None)
          => /\ ReturnedStatus = "success"
             /\ result_set = RowsOfRun
             /\ scrubbed_results = Some(scrub_results(RowsOfRun))
             /\ synthesis_prompt[1].result_set_json \in {None, scrubbed_results}
             /\ final_answer[1].result_json \in {None, scrubbed_results}
    /\ (pc = "answered" /\ RowsOfRun = <<>>)
          => /\ result_set = <<>>
             /\ synthesis_prompt[1].template = "EMPTY_RESULT_PROMPT_TEMPLATE"
             /\ final_answer[1].kind = "No Results Found"
    /\ (pc = "answered" /\ RowsOfRun # <<>>)
          => /\ synthesis_prompt[1].result_set_json = scrubbed_results
             /\ final_answer[1].result_json = scrubbed_results

\* a run whose rows hold an email address: the answer holds the mask token
C17_Witness ==
    /\ pc = "answered"
    /\ RowsOfRun # <<>>
    /\ RowsOfRun[1].contact = StrValue(EmailText)
    /\ final_answer[1].result_json[1][1].contact = StrValue(MaskToken("EMAIL"))

\* a run that succeeded with zero rows: the no-results answer
C17_WitnessEmpty ==
    /\ pc = "answered"
    /\ RowsOfRun = <<>>
    /\ scrubbed_results = Some(<<>>)
    /\ final_answer[1].kind = "No Results Found"

(***************************************************************************)
(* Several requests running LLMAgent.run through one agent, and so through *)
(* one MockLLMClient.  Each request has its own locals; the attribute      *)
(* error_mode of the client belongs to the agent.  Retrieval is left out:  *)
(* every request has got the same non-empty context.                       *)
(***************************************************************************)
NumRequests == 2         \* requests running at the same time

OtherQuery == "What was the total amount of sales across all customers?"
Questions == {UserQuery, OtherQuery}

\* '"key accounts" in prompt': the prompt ends with the user question
MentionsKeyAccounts(p) == p.user_query = UserQuery

ErrorSql == SelectKeyword \o <<" ", "non_existent_column FROM Orders;">>
JoinSql == SelectKeyword \o <<" ", "T1.total_amount, T2.customer_name FROM Orders T1 JOIN Customers T2 ...;">>
SumSql == SelectKeyword \o <<" ", "SUM(total_amount) FROM Orders;">>

Delimited(sql) == <<SQL_START_TOKEN>> \o sql \o <<SQL_END_TOKEN>>

\* a context as retrieve_schema_chunks returns it for one table that fits
OneChunkContext ==
    <<[table_name |-> "Orders", content |-> [placeholder |-> FALSE, len |-> 3]]>>

\* what a store raises for a statement that names an unknown column: sqlite
\* raises OperationalError, PostgreSQL a ProgrammingError
ColumnFaults ==
    {[kind |-> "error", rows |-> <<>>, stage |-> "execute", cls |-> "OperationalError",
      msg |-> <<"no such column: non_existent_column">>],
     [kind |-> "error", rows |-> <<>>, stage |-> "execute", cls |-> "ProgrammingError",
      msg |-> <<"column non_existent_column does not exist">>]}

\* the answer of the store to a statement of the mock client
StoreAnswer(sql, fault) ==
    IF sql = ErrorSql THEN fault
    ELSE [kind |-> "rows",
          rows |-> <<[contact |-> StrValue(EmailText), total_amount |-> IntValue(<<"1", "0">>)]>>,
          stage |-> "execute", cls |-> "", msg |-> <<>>]

\* the locals of a request that has entered the retry loop of run
NewRequest(question, mode) ==
    [pc |-> "generate", question |-> question, mode_at_start |-> mode,
     attempt |-> 0, saw_error_mode |-> FALSE, prompt |-> None,
     outputs |-> <<>>, sql_query |-> None, error_details |-> None,
     ended |-> ""]

\* MockLLMClient.generate up to the test "if self.error_mode"
ClientTestsFlag(req, mode) ==
    [req |-> [req EXCEPT !.prompt = Some(BuildSqlPrompt(req.question, OneChunkContext,
                                                        req.attempt > 0, req.error_details)),
                         !.saw_error_mode = mode,
                         !.pc = "generate_return"],
     mode |-> mode]

\* the rest of MockLLMClient.generate, and _parse_sql on what it returns
\* (each of the three answers of the mock client holds a statement)
ClientReturns(req, mode) ==
    LET response == IF req.saw_error_mode THEN Delimited(ErrorSql)
                    ELSE IF MentionsKeyAccounts(req.prompt[1]) THEN Delimited(JoinSql)
                    ELSE Delimited(SumSql)
    IN  [req |-> [req EXCEPT !.outputs = Append(@, response),
                             !.sql_query = ParsedOrNone(response),
                             !.pc = "execute"],
         mode |-> IF req.saw_error_mode THEN FALSE ELSE mode]

\* the try statement of run for one request
RequestExecutes(req, mode, fault) ==
    LET r == ExecuteReadOnlyQuery(req.sql_query[1], StoreAnswer(req.sql_query[1], fault))
        details == ErrorDetails(req.sql_query[1], r.msg)
    IN  [req |-> IF r.exc = ""
                 THEN [req EXCEPT !.pc = "done", !.ended = "success"]
                 ELSE IF ~CaughtByRun(r.exc)
                 THEN [req EXCEPT !.pc = "done", !.ended = r.exc]
                 ELSE IF ReturnsAtOnce(r.exc) \/ IsLastAttempt(req.attempt)
                 THEN [req EXCEPT !.pc = "done", !.ended = "failure",
                                  !.error_details =
                                      IF ReturnsAtOnce(r.exc) THEN @ ELSE details]
                 ELSE [req EXCEPT !.pc = "generate", !.attempt = @ + 1,
                                  !.error_details = details],
         mode |-> mode]

\* the next step of a request
RequestStep(req, mode, fault) ==
    IF req.pc = "generate" THEN ClientTestsFlag(req, mode)
    ELSE IF req.pc = "generate_return" THEN ClientReturns(req, mode)
    ELSE RequestExecutes(req, mode, fault)

\* a request running with no other request beside it, to its end
RECURSIVE RunAlone(_, _, _)
RunAlone(req, mode, fault) ==
    IF req.pc = "done" THEN req
    ELSE RunAlone(RequestStep(req, mode, fault).req,
                  RequestStep(req, mode, fault).mode, fault)

SharedInit ==
    /\ pc = "requests"
    /\ sql_query = None
    /\ Defaults
    /\ FusionDefaults
    /\ SynthesisDefaults
    /\ ConfigDefaults
    /\ error_mode \in BOOLEAN
    /\ store_fault \in {Some(fault) : fault \in ColumnFaults}
    /\ \E questions \in [1..NumRequests -> Questions] :
          requests = [r \in 1..NumRequests |-> NewRequest(questions[r], error_mode)]

NotInRequests == <<pc, schema_context, outcome, max_retry_count, store_fault>>

\* request r reaches "if self.error_mode" in generate
TestErrorMode(r) ==
    /\ requests[r].pc = "generate"
    /\ LET next == ClientTestsFlag(requests[r], error_mode)
       IN  /\ requests' = [requests EXCEPT ![r] = next.req]
           /\ error_mode' = next.mode
    /\ UNCHANGED NotInRequests
    /\ UNCHANGED <<RetrieverLocals, LoopLocals, FusionLocals, SynthesisLocals>>

\* request r resets the flag if it saw it set, and gets its answer
ReturnResponse(r) ==
    /\ requests[r].pc = "generate_return"
    /\ LET next == ClientReturns(requests[r], error_mode)
       IN  /\ requests' = [requests EXCEPT ![r] = next.req]
           /\ error_mode' = next.mode
    /\ UNCHANGED NotInRequests
    /\ UNCHANGED <<RetrieverLocals, LoopLocals, FusionLocals, SynthesisLocals>>

\* request r executes its statement
ExecuteRequest(r) ==
    /\ requests[r].pc = "execute"
    /\ LET next == RequestExecutes(requests[r], error_mode, store_fault[1])
       IN  /\ requests' = [requests EXCEPT ![r] = next.req]
           /\ error_mode' = next.mode
    /\ UNCHANGED NotInRequests
    /\ UNCHANGED <<RetrieverLocals, LoopLocals, FusionLocals, SynthesisLocals>>

SharedNext ==
    \E r \in DOMAIN requests :
        \/ TestErrorMode(r)
        \/ ReturnResponse(r)
        \/ ExecuteRequest(r)

SharedSpec == SharedInit /\ [][SharedNext]_vars

\* C18: two requests running through the same agent share no mutable state:
\* however their steps interleave, each request ends with the generator
\* outputs, the number of attempts and the outcome it has when it runs alone
\* from the same start.
C18_SameAsAlone ==
    \A r \in DOMAIN requests :
        requests[r].pc = "done" =>
           LET alone == RunAlone(NewRequest(requests[r].question, requests[r].mode_at_start),
                                 requests[r].mode_at_start, store_fault[1])
           IN  /\ requests[r].outputs = alone.outputs
               /\ requests[r].attempt = alone.attempt
               /\ requests[r].ended = alone.ended

(***************************************************************************)
(* The retry loop of run for the retry counts 0..MaxRetryCount, from the   *)
(* state in which retrieval has returned a context of one chunk            *)
(***************************************************************************)
MaxRetryCount == 2       \* largest retry count the loop is run with

RetryInit ==
    /\ pc = "generate"
    /\ sql_query = None
    /\ vector_ranks = <<>>
    /\ keyword_ranks = <<>>
    /\ fused_ranks = <<>>
    /\ rank_pos = 1
    /\ fetched = <<>>
    /\ current_token_count = 0
    /\ retrieved_context = <<>>
    /\ truncation_warning = FALSE
    /\ schema_context = Some(OneChunkContext)
    /\ attempt = 0
    /\ full_result = InitialFullResult
    /\ prompt = None
    /\ llm_response = None
    /\ exec_result = NoExecResult
    /\ outcome = NoOutcome
    /\ gen_calls = 0
    /\ exec_calls = 0
    /\ db_connects = 0
    /\ db_sent = <<>>
    /\ FusionDefaults
    /\ SynthesisDefaults
    /\ ClientDefaults
    /\ max_retry_count \in 0..MaxRetryCount

RetryNext ==
    \/ GenerateSql
    \/ CheckSql
    \/ ExecuteQuery

RetrySpec == RetryInit /\ [][RetryNext]_vars

\* the system prompt of build_sql_prompt for the context and question of the run
SystemPrompt ==
    [template |-> "SYSTEM_PROMPT_TEMPLATE",
     failed_query |-> None,
     error_message |-> None,
     schema_context |-> schema_context[1],
     user_query |-> UserQuery]

\* C19 as claimed: the first generation attempt uses the system template with
\* the retrieved context, and every later attempt uses the correction
\* template with a failed statement and its error message, whether the
\* attempts before it ended in a parse failure or in an execution failure.
C19_LaterAttemptsUseCorrection ==
    pc = "check_sql" =>
       /\ attempt = 0 => prompt[1] = SystemPrompt
       /\ attempt > 0 => /\ prompt[1].template = "CRITIC_PROMPT_TEMPLATE"
                         /\ prompt[1].failed_query # None
                         /\ prompt[1].error_message # None

\* C19, amended: the first generation attempt uses the system template with
\* the retrieved context; a later attempt uses the correction template, with
\* the statement and error message of the most recent attempt that failed in
\* execution, exactly when an earlier attempt of the run failed in execution;
\* after parse failures only it uses the system template again.
C19_CorrectionIffFailureStored ==
    pc = "check_sql" =>
       /\ attempt = 0 => ~exec_result.called
       /\ exec_result.called => exec_result.exc = "ValueError"
       /\ prompt[1] = IF exec_result.called
                      THEN CorrectionPrompt(exec_result.sql[1], exec_result.msg)
                      ELSE SystemPrompt

\* the second attempt of a run whose first answer held no statement: the
\* system prompt once more
C19_Witness ==
    /\ pc = "check_sql"
    /\ attempt = 1
    /\ gen_calls = 2
    /\ exec_calls = 0
    /\ prompt[1] = SystemPrompt

\* the third attempt of a run after an execution failure and a parse failure,
\* in any order: the correction prompt, and an answer without delimiters
C19_WitnessCorrection ==
    /\ pc = "check_sql"
    /\ attempt = 2
    /\ exec_calls = 1
    /\ db_sent = <<>>
    /\ prompt[1].template = "CRITIC_PROMPT_TEMPLATE"
    /\ llm_response[1] = SelectOne
    /\ prompt[1].failed_query = Some(SelectOne)

\* C20: an error detail is fed to the attempt that follows the failed
\* execution and to no later one: for every retry count the attempt that
\* follows a parse failure is generated with no error detail, also when an
\* earlier attempt of the run failed in execution.
C20_NoDetailAfterParseFailure ==
    [][(pc = "generate" /\ attempt > 0 /\ sql_query = None)
         => /\ prompt'[1].template = "SYSTEM_PROMPT_TEMPLATE"
            /\ prompt'[1].failed_query = None
            /\ prompt'[1].error_message = None]_vars

(***************************************************************************)
(* The end of run when the retry budget is used up                         *)
(***************************************************************************)
\* every attempt of the range has called the generator and run has ended
\* after an attempt without a statement or with a recoverable execution error
LastAttemptParseFailure ==
    /\ pc = "done"
    /\ gen_calls = max_retry_count + 1
    /\ sql_query = None

LastAttemptExecutionFailure ==
    /\ pc = "done"
    /\ gen_calls = max_retry_count + 1
    /\ sql_query # None
    /\ exec_result.called
    /\ exec_result.sql = sql_query
    /\ exec_result.exc = "ValueError"

\* C21: when the retry budget is used up by attempts that ended in a
\* recoverable execution failure or a parse failure, run returns status
\* failure with no result set; when the last attempt failed in execution the
\* answer holds that attempt's error text, and a parse failure on the last
\* attempt ends the run in failure too.
C21_ExhaustedBudgetFails ==
    (LastAttemptParseFailure \/ LastAttemptExecutionFailure) =>
       /\ outcome.kind = "returned"
       /\ outcome.result[1].status = "failure"
       /\ outcome.result[1].result_set = None
       /\ outcome.result[1].sql_query = None
       /\ LastAttemptExecutionFailure =>
             /\ exec_result.msg # <<>>
             /\ Contains(outcome.result[1].answer, exec_result.msg)

\* three attempts, one of the first two without a statement, the last one
\* failing in execution
C21_Witness ==
    /\ LastAttemptExecutionFailure
    /\ max_retry_count = 2
    /\ exec_calls = 2

\* the last of two attempts holds no statement, after an execution failure
C21_WitnessParse ==
    /\ LastAttemptParseFailure
    /\ max_retry_count = 1
    /\ exec_calls = 1

(***************************************************************************)
(* The context retrieve_schema_chunks returns, against the fused ranking   *)
(***************************************************************************)
\* the table names of a list of chunks or of fetches, in order
TableNames(chunks) == [i \in 1..Len(chunks) |-> chunks[i].table_name]

\* the token estimates of the chunks of a context, summed
ContextTokens(context) ==
    LET Sum[i \in 0..Len(context)] ==
            IF i = 0 THEN 0 ELSE Sum[i - 1] + ContentTokens(context[i].content)
    IN  Sum[Len(context)]

\* C22: the context retrieve_schema_chunks returns is a prefix of the fused
\* ranking, in ranking order.  Assembly stops at the first chunk whose cost
\* would exceed the budget: that chunk is the last one fetched, and no
\* identifier ranked after it is included or fetched, whatever its size.
C22_ContextIsPrefix ==
    pc = "retrieve_return" =>
       LET n == Len(retrieved_context)
       IN  /\ n <= Len(fused_ranks)
           /\ TableNames(retrieved_context) = SubSeq(fused_ranks, 1, n)
           /\ IF truncation_warning
              THEN /\ n < Len(fused_ranks)
                   /\ TableNames(fetched) = SubSeq(fused_ranks, 1, n + 1)
                   /\ ContextTokens(retrieved_context) + fetched[n + 1].content_tokens
                         > TOKEN_BUDGET
              ELSE /\ n = Len(fused_ranks)
                   /\ TableNames(fetched) = fused_ranks

\* three identifiers are ranked; the first chunk is taken, the second is too
\* large, and the third is not fetched although a chunk of no cost would fit
C22_Witness ==
    /\ pc = "retrieve_return"
    /\ truncation_warning
    /\ Len(fused_ranks) = 3
    /\ Len(retrieved_context) = 1
    /\ Len(fetched) = 2
    /\ ContextTokens(retrieved_context) + ContentTokens([len |-> Min(ContentLens \ {0})])
          <= TOKEN_BUDGET

\* the chunk retrieve_schema_chunks builds for an identifier without content
PlaceholderChunk(table_name) ==
    [table_name |-> table_name,
     content |-> [placeholder |-> TRUE,
                  len |-> Len("# Table: " \o table_name
                              \o "\nError: Schema content missing from index.")]]

\* C23: when the content lookup returns the empty string for an identifier of
\* the fused ranking, retrieval neither skips the identifier nor fails: the
\* placeholder chunk of that identifier stands at the identifier's rank
\* position, and its estimate is counted against the budget like that of any
\* other chunk - added to the running count when the chunk is taken, and
\* ending the assembly when it does not fit.
C23_MissingContentIsPlaceholder ==
    pc \in {"assemble", "retrieve_return"} =>
       /\ outcome = NoOutcome
       /\ current_token_count = ContextTokens(retrieved_context)
       /\ \A i \in 1..Len(fetched) :
             fetched[i].stored_len = 0 =>
                LET chunk == PlaceholderChunk(fused_ranks[i])
                IN  /\ fetched[i].table_name = fused_ranks[i]
                    /\ fetched[i].content_tokens = ContentTokens(chunk.content)
                    /\ ContentTokens(chunk.content) > 0
                    /\ IF i <= Len(retrieved_context)
                       THEN retrieved_context[i] = chunk
                       ELSE /\ i = Len(retrieved_context) + 1
                            /\ pc = "retrieve_return"
                            /\ truncation_warning
                            /\ current_token_count + ContentTokens(chunk.content)
                                  > TOKEN_BUDGET

\* the second identifier of the ranking has no content: its placeholder is
\* the second chunk of the context and the only cost counted so far
C23_Witness ==
    /\ pc \in {"assemble", "retrieve_return"}
    /\ Len(retrieved_context) >= 2
    /\ fetched[2].stored_len = 0
    /\ fetched[1].stored_len = Min(ContentLens \ {0})
    /\ retrieved_context[2] = PlaceholderChunk(fused_ranks[2])
    /\ current_token_count = ContentTokens(retrieved_context[2].content)
    /\ current_token_count > 0

\* a placeholder that does not fit what is left of the budget ends the assembly
C23_WitnessRejected ==
    /\ pc = "retrieve_return"
    /\ truncation_warning
    /\ fetched[Len(fetched)].stored_len = 0

(***************************************************************************)
(* The statement _generate_sql parses from the generator's answer          *)
(***************************************************************************)
\* the regions of a text delimited by a start token and the next end token:
\* each is given as the positions of its two tokens
DelimitedRegions(text) ==
    {region \in (1..Len(text)) \X (1..Len(text)) :
        /\ region[1] < region[2]
        /\ text[region[1]] \in StartTokens
        /\ text[region[2]] \in EndTokens
        /\ \A m \in (region[1] + 1)..(region[2] - 1) :
              text[m] \notin StartTokens \cup EndTokens}

\* the text between the two tokens of a region
Between(text, region) == SubSeq(text, region[1] + 1, region[2] - 1)

\* C24: _parse_sql yields a candidate statement only when the generator
\* output holds exactly one region delimited by the start token and the end
\* token; the candidate is the text between them, trimmed and with every
\* backtick removed, so that it holds no backtick and neither starts nor ends
\* with white space; an output without a delimited region is a parse failure.
C24_CandidateIsTheOneTrimmedRegion ==
    pc = "check_sql" =>
       LET text == llm_response[1]
           regions == DelimitedRegions(text)
       IN  /\ regions = {} => sql_query = None
           /\ sql_query # None =>
                 /\ Cardinality(regions) = 1
                 /\ \A region \in regions :
                       sql_query[1] = Strip(RemoveBackticks(Between(text, region)))
                 /\ \A i \in 1..Len(sql_query[1]) : sql_query[1][i] # Backtick
                 /\ sql_query[1][1] \notin Whitespace
                 /\ sql_query[1][Len(sql_query[1])] \notin Whitespace

(***************************************************************************)
(* The order of the steps of the attempts of one request                   *)
(***************************************************************************)
\* where the request stands inside its current attempt
AttemptsInOrder ==
    /\ pc = "generate" => gen_calls = attempt
    /\ pc \in {"check_sql", "execute"} => gen_calls = attempt + 1
    /\ exec_calls <= gen_calls

\* a step that calls the generator starts the attempt that follows the ones
\* made so far, each of which has ended without a successful execution
GeneratorCallStartsAttempt ==
    gen_calls' # gen_calls =>
       /\ pc = "generate"
       /\ gen_calls = attempt
       /\ gen_calls' = gen_calls + 1
       /\ exec_calls' = exec_calls
       /\ exec_result.called => exec_result.exc = "ValueError"

\* a step that calls the guard does so once, for the attempt whose generator
\* call has returned, with the non-empty statement parsed from that answer,
\* and ends the attempt
GuardCallEndsAttempt ==
    exec_calls' # exec_calls =>
       /\ pc = "execute"
       /\ exec_calls' = exec_calls + 1
       /\ gen_calls' = gen_calls
       /\ gen_calls = attempt + 1
       /\ exec_calls <= attempt
       /\ llm_response # None
       /\ ParseSql(llm_response[1]) # None
       /\ sql_query = ParseSql(llm_response[1])
       /\ sql_query[1] # <<>>
       /\ exec_result'.sql = sql_query
       /\ \/ pc' = "done"
          \/ pc' = "generate" /\ attempt' = attempt + 1

\* C25: the attempts of a request do not overlap and each goes generate,
\* parse, execute: the guard is called at most once per attempt, after that
\* attempt's generator call has returned, with the non-empty statement parsed
\* from that attempt's answer, and never for an attempt without a statement;
\* after a successful execution there is no generator call and no execution.
C25_AttemptsSequential ==
    /\ []AttemptsInOrder
    /\ [][/\ GeneratorCallStartsAttempt
          /\ GuardCallEndsAttempt
          /\ (exec_result.called /\ exec_result.exc = "") =>
                (gen_calls' = gen_calls /\ exec_calls' = exec_calls)]_vars

\* a run of three attempts: one without a statement, one failing in
\* execution, and the third executed with success
C25_Witness ==
    /\ pc = "done"
    /\ gen_calls = 3
    /\ exec_calls = 2
    /\ exec_result.called
    /\ exec_result.exc = ""
    /\ outcome.kind = "returned"
    /\ outcome.result[1].status = "success"

(***************************************************************************)
(* The outcome run returns                                                 *)
(***************************************************************************)
\* the last attempt parsed a statement and the guard executed it and
\* returned rows
LastStatementExecuted ==
    /\ sql_query # None
    /\ exec_result.called
    /\ exec_result.sql = sql_query
    /\ exec_result.exc = ""

\* C26: in every outcome run returns, status is success exactly when the
\* statement of the last attempt was executed with success by the guard; a
\* success outcome carries that statement and the rows the execution
\* returned, and a failure outcome carries no result set.
C26_SuccessIffLastExecuted ==
    outcome.kind = "returned" =>
       LET result == outcome.result[1]
       IN  /\ result.status \in {"success", "failure"}
           /\ result.status = "success" <=> LastStatementExecuted
           /\ result.status = "success" =>
                 /\ result.sql_query = sql_query
                 /\ result.result_set = Some(exec_result.rows)
                 /\ exec_result.store # None
                 /\ exec_result.store[1].kind = "rows"
                 /\ exec_result.rows = exec_result.store[1].rows
                 /\ db_sent[Len(db_sent)] = sql_query[1]
           /\ result.status = "failure" => result.result_set = None

\* the second attempt succeeds with one row after the first failed in
\* execution
C26_Witness ==
    /\ pc = "done"
    /\ outcome.kind = "returned"
    /\ outcome.result[1].status = "success"
    /\ attempt = 1
    /\ exec_calls = 2
    /\ Len(outcome.result[1].result_set[1]) = 1

\* a run that ends in failure after a successful retrieval
C26_WitnessFailure ==
    /\ pc = "done"
    /\ outcome.kind = "returned"
    /\ outcome.result[1].status = "failure"
    /\ gen_calls = 2
    /\ exec_calls = 2

(***************************************************************************)
(* A top-ranked chunk that is larger than the whole budget                 *)
(***************************************************************************)
\* the chunk of the top-ranked identifier has been fetched and its estimate
\* alone exceeds the budget
TopChunkTooLarge ==
    /\ fetched # <<>>
    /\ fetched[1].table_name = fused_ranks[1]
    /\ fetched[1].content_tokens > TOKEN_BUDGET

\* the outcome of "if not schema_context" in run
RetrievalFailure ==
    Returned(FailureResult(<<"Schema retrieval failed. Context is empty.">>))

\* C27: when the chunk of the top-ranked identifier alone costs more than
\* TOKEN_BUDGET, retrieve_schema_chunks returns an empty context with the
\* truncation flag set, whatever is ranked below it, and the request then
\* fails as a retrieval failure without a generator call.
C27_OversizedTopChunkFailsRetrieval ==
    /\ [](TopChunkTooLarge =>
             /\ pc = "retrieve_return"
             /\ Len(fetched) = 1
             /\ retrieved_context = <<>>
             /\ truncation_warning
             /\ gen_calls = 0)
    /\ [][TopChunkTooLarge =>
             /\ schema_context' = Some(<<>>)
             /\ truncation_warning'
             /\ pc' = "done"
             /\ outcome' = RetrievalFailure
             /\ gen_calls' = 0
             /\ exec_calls' = 0]_vars
    /\ [](outcome = RetrievalFailure =>
             /\ pc = "done"
             /\ gen_calls = 0
             /\ exec_calls = 0)

\* the request has failed in retrieval with the truncation flag set
C27_Witness ==
    /\ pc = "done"
    /\ outcome = RetrievalFailure
    /\ truncation_warning
    /\ schema_context = Some(<<>>)
    /\ gen_calls = 0

\* the top chunk of a ranking of three is too large: the two identifiers
\* ranked below it are not fetched, though a chunk of no cost would fit
C27_WitnessLowerRanked ==
    /\ pc = "retrieve_return"
    /\ TopChunkTooLarge
    /\ Len(fused_ranks) = 3
    /\ ContentTokens([len |-> Min(ContentLens \ {0})]) <= TOKEN_BUDGET

====
